---------------------------- MODULE Spec2Model ----------------------------
(***************************************************************************)
(* Hangman game engine of backend/app.py and backend/utils.py.             *)
(*                                                                         *)
(* A string is a sequence of one-character strings.  The registry `games`  *)
(* maps session identifiers to GameState records.  Every route handler is  *)
(* one action under Spec (requests run to completion one at a time); under *)
(* SpecConc two guess requests run in worker threads that interleave.      *)
(***************************************************************************)
EXTENDS Integers, Sequences, FiniteSets, TLC

VARIABLES
    files,   \* the word-list files beside utils.py: tier -> the list it holds
    games,   \* app.py `games`: identifier -> GameState
    resp,    \* the response (or HTTP error) of the last completed request
    pc,      \* SpecConc: each worker thread's position inside api_guess
    req,     \* SpecConc: each worker thread's request and local variables
    base     \* SpecConc: the registry when the two requests were dispatched

vars == <<files, games, resp, pc, req, base>>

---------------------------------------------------------------------------
(* Bounds *)

\* The number of identifiers uuid4 hands out, hence the size of the registry.
MaxGames == 1

\* SpecStatus: the longest secret and the most lives of the sessions it draws
MaxSecretLen == 3
MaxStatusLives == 2

---------------------------------------------------------------------------
(* Characters and the str methods the code uses *)

Letters == {"a", "b", "c", "d", "e", "f", "g", "h", "i", "j", "k"}
Upper == {"A", "B"}

isspace(c) == c = " "

lower_char(c) == IF c = "A" THEN "a" ELSE IF c = "B" THEN "b" ELSE c

\* str.lower()
lower(s) == [i \in 1..Len(s) |-> lower_char(s[i])]

RECURSIVE lstrip(_)
lstrip(s) == IF s = <<>> THEN s
             ELSE IF isspace(Head(s)) THEN lstrip(Tail(s)) ELSE s

RECURSIVE rstrip(_)
rstrip(s) == IF s = <<>> THEN s
             ELSE IF isspace(s[Len(s)]) THEN rstrip(SubSeq(s, 1, Len(s) - 1)) ELSE s

\* str.strip()
strip(s) == rstrip(lstrip(s))

\* str.isalpha(): at least one character and all of them letters
isalpha(s) == Len(s) >= 1 /\ \A i \in 1..Len(s) : s[i] \in Letters \cup Upper

\* set(s)
set(s) == {s[i] : i \in 1..Len(s)}

\* the order of characters sorted() uses (code points)
ord(c) == CASE c = " " -> 32 [] c = "1" -> 49 [] c = "A" -> 65 [] c = "B" -> 66
            [] c = "a" -> 97 [] c = "b" -> 98 [] c = "c" -> 99 [] c = "d" -> 100
            [] c = "e" -> 101 [] c = "f" -> 102 [] c = "g" -> 103 [] c = "h" -> 104
            [] c = "i" -> 105 [] c = "j" -> 106 [] c = "k" -> 107

RECURSIVE sorted(_)
sorted(S) == IF S = {} THEN <<>>
             ELSE LET m == CHOOSE x \in S : \A y \in S : ord(x) <= ord(y)
                  IN <<m>> \o sorted(S \ {m})

---------------------------------------------------------------------------
(* utils.py *)

Tiers == {"easy", "normal", "hard"}

\* the table with the lives of normal and hard exchanged
DIFFICULTY_lives_exchanged ==
    [d \in Tiers |->
        CASE d = "easy"   -> [min_len |-> 5, max_len |-> 6,  lives |-> 10]
          [] d = "normal" -> [min_len |-> 6, max_len |-> 8,  lives |-> 5]
          [] d = "hard"   -> [min_len |-> 7, max_len |-> 99, lives |-> 7]]

DIFFICULTY ==
    [d \in Tiers |->
        CASE d = "easy"   -> [min_len |-> 5, max_len |-> 6,  lives |-> 10]
          [] d = "normal" -> [min_len |-> 6, max_len |-> 8,  lives |-> 7]
          [] d = "hard"   -> [min_len |-> 7, max_len |-> 99, lives |-> 5]]

\* The loop of load_words over the lines of the file: strip and lowercase,
\* skip empty or non-alphabetic lines, lines outside the tier's length
\* bounds and words already seen.
RECURSIVE load_lines(_, _, _)
load_lines(cfg, lines, words) ==
    IF lines = <<>> THEN words
    ELSE LET w == lower(strip(Head(lines)))
             skip == \/ w = <<>>
                     \/ ~isalpha(w)
                     \/ ~(cfg.min_len <= Len(w) /\ Len(w) <= cfg.max_len)
                     \/ w \in set(words)
         IN load_lines(cfg, Tail(lines), IF skip THEN words ELSE Append(words, w))

\* The word lists a file beside utils.py may hold, by name
WordLists ==
    [n \in {"easy_list", "normal_list", "hard_list", "short_list"} |->
        CASE n = "easy_list" ->
               << <<"A","a","a","a","a">>,
                  <<" ","a","a","a","a","a"," ">>,
                  <<"a","b">>,
                  <<"a","b","1","b","a">>,
                  <<>>,
                  <<"a","b","a","b","a","b","a">> >>
          [] n = "normal_list" ->
               << <<"a","b","a","b","a","b">>,
                  <<"a","b","a","b","a">> >>
          [] n = "hard_list" ->
               << <<"a","b","a","b","a","b","a">>,
                  <<"a","a","a","a","a","a">>,
                  <<"a","a","a","a","a","a","a">> >>
          [] n = "short_list" ->
               << <<"a","b","a","b","a">>, <<"1">> >>]

\* path.exists() is false
Missing == "missing"

\* What the file of each tier holds: every list in place, or the normal
\* list missing and the hard list holding nothing the filter keeps
WordFilesGood ==
    [d \in Tiers |->
        CASE d = "easy" -> "easy_list" [] d = "normal" -> "normal_list"
          [] d = "hard" -> "hard_list"]

WordFilesBad ==
    [d \in Tiers |->
        CASE d = "easy" -> "easy_list" [] d = "normal" -> Missing
          [] d = "hard" -> "short_list"]

WordFiles == {WordFilesGood, WordFilesBad}

\* The words the loop of load_words keeps of each list under each tier's
\* bounds, computed once
LoadedWords ==
    [n \in DOMAIN WordLists |->
        [d \in Tiers |-> load_lines(DIFFICULTY[d], WordLists[n], <<>>)]]

\* load_words: [ok |-> TRUE, words] or [ok |-> FALSE, error]
load_words(difficulty) ==
    IF difficulty \notin DOMAIN DIFFICULTY
    THEN [ok |-> FALSE, error |-> "ValueError"]
    ELSE IF files[difficulty] = Missing
    THEN [ok |-> FALSE, error |-> "FileNotFoundError"]
    ELSE [ok |-> TRUE, words |-> LoadedWords[files[difficulty]][difficulty]]

\* the assert left out and an empty word returned for an empty list
choose_secret_unchecked(words) == IF words = <<>> THEN {<<>>} ELSE set(words)

\* choose_secret: the words random.choice may return (none: the assert fails)
choose_secret(words) == set(words)

\* is_valid_letter without the isalpha test
is_valid_letter_any(ch) ==
    LET c == strip(ch) IN Len(c) = 1

is_valid_letter(ch) ==
    LET c == strip(ch) IN Len(c) = 1 /\ isalpha(c)

\* "".join(pieces): the pieces with nothing between them
join_without_spaces(pieces) == pieces

\* " ".join(pieces)
join(pieces) ==
    [i \in 1..(2 * Len(pieces) - 1) |->
        IF i % 2 = 1 THEN pieces[(i + 1) \div 2] ELSE " "]

mask_word(secret, guessed_letters) ==
    join([i \in 1..Len(secret) |->
            IF secret[i] \in guessed_letters THEN secret[i] ELSE "_"])

compute_status(secret, guessed_letters, lives) ==
    [masked |-> mask_word(secret, guessed_letters),
     wrong  |-> sorted({ch \in guessed_letters : ch \notin set(secret)}),
     lives  |-> lives,
     won    |-> set(secret) \subseteq guessed_letters,
     lost   |-> lives <= 0]

---------------------------------------------------------------------------
(* app.py: helpers *)

HTTPException(status_code, detail) ==
    [kind |-> "error", status_code |-> status_code, detail |-> detail]

\* An exception no handler catches: the framework answers 500.
ServerError(exc) == HTTPException(500, exc)

NoResponse == [kind |-> "none"]

GameState(difficulty, secret, lives, guessed) ==
    [difficulty |-> difficulty, secret |-> secret, lives |-> lives, guessed |-> guessed]

\* _new_game_state: the exception it raises ("none": it returns) and the
\* states it may return, one per secret random.choice may draw
_new_game_state(difficulty) ==
    LET r == load_words(difficulty)
    IN IF ~r.ok THEN [raised |-> r.error, states |-> {}]
       ELSE IF choose_secret(r.words) = {}
       THEN [raised |-> "AssertionError", states |-> {}]
       ELSE [raised |-> "none",
             states |-> {GameState(difficulty, secret, DIFFICULTY[difficulty].lives, {}) :
                           secret \in choose_secret(r.words)}]

\* the response built from the whole session, secret included
_response_with_secret(game_id, gs) ==
    LET status == compute_status(gs.secret, gs.guessed, gs.lives)
    IN [kind |-> "ok", game_id |-> game_id, masked |-> status.masked,
        lives |-> status.lives, wrong |-> status.wrong,
        won |-> status.won, lost |-> status.lost, secret |-> gs.secret]

_response(game_id, gs) ==
    LET status == compute_status(gs.secret, gs.guessed, gs.lives)
    IN [kind |-> "ok", game_id |-> game_id, masked |-> status.masked,
        lives |-> status.lives, wrong |-> status.wrong,
        won |-> status.won, lost |-> status.lost]

\* uuid4().hex: an identifier no session has and no client has sent
GameIds == 1..MaxGames
uuid4(reg) == CHOOSE i \in GameIds : i \notin DOMAIN reg

\* Identifiers a client may send that the server never generated
ForeignIds == {0}

\* What a request leaves behind: the registry and the response
Outcome(reg, response) == [games |-> reg, resp |-> response]

---------------------------------------------------------------------------
(* app.py: the statements of api_guess that change a session *)

\* the end-of-game test looking at the won flag alone
game_over_won_only(snap) == snap.won

\* the end-of-game test looking at the lost flag alone
game_over_lost_only(snap) == snap.lost

\* "if snap['won'] or snap['lost']"
game_over(snap) == snap.won \/ snap.lost

\* the duplicate test left out
already_guessed_never(ch, guessed) == FALSE

\* "if raw in gs.guessed"
already_guessed(ch, guessed) == ch \in guessed

\* "gs.guessed.add(raw)"
add_guess(guessed, ch) == guessed \cup {ch}

\* the penalty charged for every new letter
letter_lives_always(lives, ch, secret) == lives - 1

\* the penalty for a wrong letter left out
letter_lives_never(lives, ch, secret) == lives

\* the word penalty charged for a wrong letter
letter_lives_two(lives, ch, secret) == IF ch \notin set(secret) THEN lives - 2 ELSE lives

\* "if raw not in gs.secret: gs.lives -= 1"
letter_lives(lives, ch, secret) == IF ch \notin set(secret) THEN lives - 1 ELSE lives

\* the guessed set overwritten by the letters of the secret
reveal_all_overwrite(guessed, secret) == set(secret)

\* "gs.guessed.update(set(gs.secret))"
reveal_all(guessed, secret) == guessed \cup set(secret)

\* the word penalty without the floor at zero
wrong_word_lives_unclamped(lives) == lives - 2

\* the word penalty of one life ("Option B" of the comment)
wrong_word_lives_one(lives) == IF lives - 1 < 0 THEN 0 ELSE lives - 1

\* "gs.lives -= 2; if gs.lives < 0: gs.lives = 0"
wrong_word_lives(lives) == IF lives - 2 < 0 THEN 0 ELSE lives - 2

\* one state object shared by every session of the registry
update_every_session(reg, game_id, gs2) == [h \in DOMAIN reg |-> gs2]

\* "gs = games.get(req.game_id)": gs is the object the registry holds under
\* that identifier, so the assignments to its fields change that entry alone
update_session(reg, game_id, gs2) == [reg EXCEPT ![game_id] = gs2]

---------------------------------------------------------------------------
(* app.py: the routes, each request run to completion on registry reg *)

\* api_new: nothing is stored when _new_game_state raises; no request for a
\* new session is modelled once MaxGames identifiers are in use
new_outcomes(reg, difficulty) ==
    LET made == _new_game_state(difficulty)
    IN IF Cardinality(DOMAIN reg) >= MaxGames THEN {}
       ELSE IF made.raised # "none"
       THEN {Outcome(reg, ServerError(made.raised))}
       ELSE {LET gid == uuid4(reg)
             IN Outcome((gid :> gs) @@ reg, _response(gid, gs)) : gs \in made.states}

\* api_guess with the letter and word validation moved before the
\* end-of-game test
guess_outcome_validates_first(reg, game_id, letter) ==
    IF game_id \notin DOMAIN reg
    THEN Outcome(reg, HTTPException(404, "Unknown game_id"))
    ELSE
    LET gs == reg[game_id]
        raw == lower(strip(letter))
        snap == compute_status(gs.secret, gs.guessed, gs.lives)
    IN
    IF raw = <<>>
    THEN Outcome(reg, HTTPException(400, "Empty guess"))
    ELSE IF Len(raw) = 1 /\ ~is_valid_letter(raw)
    THEN Outcome(reg, HTTPException(400, "Invalid letter"))
    ELSE IF Len(raw) > 1 /\ ~isalpha(raw)
    THEN Outcome(reg, HTTPException(400, "Invalid word"))
    ELSE IF game_over(snap)
    THEN Outcome(reg, _response(game_id, gs))
    ELSE IF Len(raw) = 1
    THEN IF already_guessed(raw[1], gs.guessed)
         THEN Outcome(reg, _response(game_id, gs))
         ELSE LET gs2 == [gs EXCEPT
                            !.guessed = add_guess(@, raw[1]),
                            !.lives = letter_lives(@, raw[1], gs.secret)]
              IN Outcome(update_session(reg, game_id, gs2), _response(game_id, gs2))
    ELSE IF raw = gs.secret
         THEN LET gs2 == [gs EXCEPT !.guessed = reveal_all(@, gs.secret)]
              IN Outcome(update_session(reg, game_id, gs2), _response(game_id, gs2))
         ELSE LET gs2 == [gs EXCEPT !.lives = wrong_word_lives(@)]
              IN Outcome(update_session(reg, game_id, gs2), _response(game_id, gs2))

guess_outcome(reg, game_id, letter) ==
    IF game_id \notin DOMAIN reg
    THEN Outcome(reg, HTTPException(404, "Unknown game_id"))
    ELSE
    LET gs == reg[game_id]
        raw == lower(strip(letter))
        snap == compute_status(gs.secret, gs.guessed, gs.lives)
    IN
    IF raw = <<>>
    THEN Outcome(reg, HTTPException(400, "Empty guess"))
    ELSE IF game_over(snap)
    THEN Outcome(reg, _response(game_id, gs))
    ELSE IF Len(raw) = 1
    THEN IF ~is_valid_letter(raw)
         THEN Outcome(reg, HTTPException(400, "Invalid letter"))
         ELSE IF already_guessed(raw[1], gs.guessed)
         THEN Outcome(reg, _response(game_id, gs))
         ELSE LET gs2 == [gs EXCEPT
                            !.guessed = add_guess(@, raw[1]),
                            !.lives = letter_lives(@, raw[1], gs.secret)]
              IN Outcome(update_session(reg, game_id, gs2), _response(game_id, gs2))
    ELSE IF ~isalpha(raw)
         THEN Outcome(reg, HTTPException(400, "Invalid word"))
         ELSE IF raw = gs.secret
         THEN LET gs2 == [gs EXCEPT !.guessed = reveal_all(@, gs.secret)]
              IN Outcome(update_session(reg, game_id, gs2), _response(game_id, gs2))
         ELSE LET gs2 == [gs EXCEPT !.lives = wrong_word_lives(@)]
              IN Outcome(update_session(reg, game_id, gs2), _response(game_id, gs2))

\* RestartRequest.difficulty is Optional: "none" stands for None
NoDifficulty == "none"

\* the previous session's difficulty ignored: the default tier instead
restart_difficulty_normal(difficulty, prev) ==
    IF difficulty # NoDifficulty THEN difficulty ELSE "normal"

\* "req.difficulty or prev.difficulty"
restart_difficulty(difficulty, prev) ==
    IF difficulty # NoDifficulty THEN difficulty ELSE prev.difficulty

\* "req.difficulty or 'normal'"
default_difficulty(difficulty) ==
    IF difficulty # NoDifficulty THEN difficulty ELSE "normal"

\* the brand new session stored under the identifier the client sent
restart_supplied_gid(reg, game_id) == game_id

\* "new_gid = uuid4().hex": the key of the brand new session
restart_new_gid(reg, game_id) == uuid4(reg)

restart_outcomes(reg, game_id, difficulty) ==
    IF game_id \in DOMAIN reg
    THEN LET diff == restart_difficulty(difficulty, reg[game_id])
             made == _new_game_state(diff)
         IN IF made.raised # "none"
            THEN {Outcome(reg, ServerError(made.raised))}
            ELSE {LET reg2 == [reg EXCEPT ![game_id] = gs]
                  IN Outcome(reg2, _response(game_id, reg2[game_id])) :
                    gs \in made.states}
    ELSE LET diff == default_difficulty(difficulty)
             made == _new_game_state(diff)
         IN IF Cardinality(DOMAIN reg) >= MaxGames THEN {}
            ELSE IF made.raised # "none"
            THEN {Outcome(reg, ServerError(made.raised))}
            ELSE {LET new_gid == restart_new_gid(reg, game_id)
                      reg2 == (new_gid :> gs) @@ reg
                  IN Outcome(reg2, _response(new_gid, reg2[new_gid])) :
                    gs \in made.states}

Idle == \A t \in DOMAIN pc : pc[t] = "idle"

api_new(difficulty) ==
    /\ Idle
    /\ \E out \in new_outcomes(games, difficulty) :
         games' = out.games /\ resp' = out.resp
    /\ UNCHANGED <<files, pc, req, base>>

api_guess(game_id, letter) ==
    /\ Idle
    /\ LET out == guess_outcome(games, game_id, letter)
       IN games' = out.games /\ resp' = out.resp
    /\ UNCHANGED <<files, pc, req, base>>

api_restart(game_id, difficulty) ==
    /\ Idle
    /\ \E out \in restart_outcomes(games, game_id, difficulty) :
         games' = out.games /\ resp' = out.resp
    /\ UNCHANGED <<files, pc, req, base>>

---------------------------------------------------------------------------
(* The environment: what clients send *)

\* The "letter" fields clients send
RawGuesses ==
    { <<>>, <<" ">>,
      <<"a">>, <<" ","B"," ">>, <<"1">>,
      <<"b","b">>, <<"a","1">>,
      <<"a","a","a","a","a">>,
      <<" ","A","B","a","b","a","b">>,
      <<"a","b","a","b","a","b","a">>,
      <<"a","a","a","a","a","a","a">> }

\* The identifiers clients send: those the server handed out, and foreign ones
ClientIds == DOMAIN games \cup ForeignIds

Threads == {1, 2}

NoRequest == [game_id |-> 0, letter |-> <<>>, lives |-> 0]

Init ==
    /\ files \in WordFiles
    /\ games = <<>>
    /\ resp = NoResponse
    /\ pc = [t \in Threads |-> "idle"]
    /\ req = [t \in Threads |-> NoRequest]
    /\ base = <<>>

Next ==
    \/ \E d \in Tiers : api_new(d)
    \/ \E g \in ClientIds, l \in RawGuesses : api_guess(g, l)
    \/ \E g \in ClientIds, d \in Tiers \cup {NoDifficulty} : api_restart(g, d)

Spec == Init /\ [][Next]_vars

---------------------------------------------------------------------------
(* app.py: api_guess in the worker threads of the server.  The route is a   *)
(* plain "def", so the framework runs each request in a thread of its pool; *)
(* no lock guards `games` or a session.  A thread may be switched out       *)
(* between any two statements, and "gs.lives -= n" is a read of gs.lives    *)
(* followed by a write of it.                                               *)

my_raw(t) == lower(strip(req[t].letter))
my_gs(t) == games[req[t].game_id]

goto(t, label) == pc' = [pc EXCEPT ![t] = label]

\* The guesses the two concurrent requests carry
ConcGuesses ==
    { <<"a">>, <<"b">>, <<"b","b">>, <<"a","a","a","a","a","a","a">> }

\* Two guess requests for the same session arrive together.
Dispatch(game_id, l1, l2) ==
    /\ Idle
    /\ game_id \in DOMAIN games
    /\ pc' = [t \in Threads |-> "check"]
    /\ req' = [t \in Threads |->
                 [game_id |-> game_id, letter |-> IF t = 1 THEN l1 ELSE l2, lives |-> 0]]
    /\ base' = games
    /\ UNCHANGED <<files, games, resp>>

\* Lines 97-131: the lookup, the normalisation and every check before the
\* first change of the session.
t_check(t) ==
    /\ pc[t] = "check"
    /\ LET gs == my_gs(t)
           raw == my_raw(t)
           snap == compute_status(gs.secret, gs.guessed, gs.lives)
       IN IF raw = <<>>
          THEN resp' = HTTPException(400, "Empty guess") /\ goto(t, "done")
          ELSE IF game_over(snap)
          THEN resp' = _response(req[t].game_id, gs) /\ goto(t, "done")
          ELSE IF Len(raw) = 1
          THEN IF ~is_valid_letter(raw)
               THEN resp' = HTTPException(400, "Invalid letter") /\ goto(t, "done")
               ELSE IF already_guessed(raw[1], gs.guessed)
               THEN resp' = _response(req[t].game_id, gs) /\ goto(t, "done")
               ELSE UNCHANGED resp /\ goto(t, "add")
          ELSE IF ~isalpha(raw)
               THEN resp' = HTTPException(400, "Invalid word") /\ goto(t, "done")
               ELSE IF raw = gs.secret
               THEN UNCHANGED resp /\ goto(t, "reveal")
               ELSE UNCHANGED resp /\ goto(t, "load_word")
    /\ UNCHANGED <<files, games, req, base>>

\* Lines 120-121: gs.guessed.add(raw); if raw not in gs.secret
t_add(t) ==
    /\ pc[t] = "add"
    /\ games' = [games EXCEPT ![req[t].game_id].guessed = add_guess(@, my_raw(t)[1])]
    /\ IF my_raw(t)[1] \notin set(my_gs(t).secret)
       THEN goto(t, "load_letter")
       ELSE goto(t, "respond")
    /\ UNCHANGED <<files, resp, req, base>>

\* The read of gs.lives in "gs.lives -= 1" (line 122) and "gs.lives -= 2" (line 140)
t_load(t) ==
    /\ pc[t] \in {"load_letter", "load_word"}
    /\ req' = [req EXCEPT ![t].lives = my_gs(t).lives]
    /\ goto(t, IF pc[t] = "load_letter" THEN "store_letter" ELSE "store_word")
    /\ UNCHANGED <<files, games, resp, base>>

\* The write of gs.lives in "gs.lives -= 1" (line 122)
t_store_letter(t) ==
    /\ pc[t] = "store_letter"
    /\ games' = [games EXCEPT ![req[t].game_id].lives = req[t].lives - 1]
    /\ goto(t, "respond")
    /\ UNCHANGED <<files, resp, req, base>>

\* The write of gs.lives in "gs.lives -= 2" (line 140)
t_store_word(t) ==
    /\ pc[t] = "store_word"
    /\ games' = [games EXCEPT ![req[t].game_id].lives = req[t].lives - 2]
    /\ goto(t, "clamp")
    /\ UNCHANGED <<files, resp, req, base>>

\* Lines 141-142: if gs.lives < 0: gs.lives = 0
t_clamp(t) ==
    /\ pc[t] = "clamp"
    /\ games' = [games EXCEPT ![req[t].game_id].lives = IF @ < 0 THEN 0 ELSE @]
    /\ goto(t, "respond")
    /\ UNCHANGED <<files, resp, req, base>>

\* Line 133: gs.guessed.update(set(gs.secret))
t_reveal(t) ==
    /\ pc[t] = "reveal"
    /\ games' = [games EXCEPT ![req[t].game_id].guessed = reveal_all(@, my_gs(t).secret)]
    /\ goto(t, "respond")
    /\ UNCHANGED <<files, resp, req, base>>

\* return _response(req.game_id, gs)
t_respond(t) ==
    /\ pc[t] = "respond"
    /\ resp' = _response(req[t].game_id, my_gs(t))
    /\ goto(t, "done")
    /\ UNCHANGED <<files, games, req, base>>

\* Both requests have been answered.
Collect ==
    /\ \A t \in Threads : pc[t] = "done"
    /\ pc' = [t \in Threads |-> "idle"]
    /\ req' = [t \in Threads |-> NoRequest]
    /\ base' = <<>>
    /\ UNCHANGED <<files, games, resp>>

NextConc ==
    \/ \E d \in Tiers : api_new(d)
    \/ \E g \in GameIds, l1 \in ConcGuesses, l2 \in ConcGuesses : Dispatch(g, l1, l2)
    \/ \E t \in Threads : t_check(t)
    \/ \E t \in Threads : t_add(t)
    \/ \E t \in Threads : t_load(t)
    \/ \E t \in Threads : t_store_letter(t)
    \/ \E t \in Threads : t_store_word(t)
    \/ \E t \in Threads : t_clamp(t)
    \/ \E t \in Threads : t_reveal(t)
    \/ \E t \in Threads : t_respond(t)
    \/ Collect

SpecConc == Init /\ [][NextConc]_vars

\* The registries the two requests of a batch leave when run one after the
\* other, in either order
SerialOutcomes ==
    LET g == req[1].game_id
        one(reg, t) == guess_outcome(reg, g, req[t].letter).games
    IN {one(one(base, 1), 2), one(one(base, 2), 1)}

---------------------------------------------------------------------------
(* Two sessions side by side: the registry after two POST /api/new, then    *)
(* guesses and restarts only                                                *)

PairIds == {1, 2}

\* The sessions _new_game_state may return, of any tier
FreshStates == UNION {_new_game_state(d).states : d \in Tiers}

InitPair ==
    /\ files \in WordFiles
    /\ games \in [PairIds -> FreshStates]
    /\ resp = NoResponse
    /\ pc = [t \in Threads |-> "idle"]
    /\ req = [t \in Threads |-> NoRequest]
    /\ base = <<>>

NextPair ==
    \/ \E g \in ClientIds, l \in RawGuesses : api_guess(g, l)
    \/ \E g \in ClientIds, d \in Tiers \cup {NoDifficulty} : api_restart(g, d)

SpecPair == InitPair /\ [][NextPair]_vars

---------------------------------------------------------------------------
(* The status projection over sessions of any content: the registry holds  *)
(* one session drawn from every short secret, guessed set and lives count, *)
(* and the guess and restart routes run on it                              *)

StatusLetters == {"a", "b", "c"}

StatusWords == UNION {[1..n -> StatusLetters] : n \in 1..MaxSecretLen}

StatusSessions ==
    {GameState("easy", secret, lives, guessed) :
        secret \in StatusWords, lives \in 0..MaxStatusLives,
        guessed \in SUBSET StatusLetters}

StatusGuesses ==
    { <<>>, <<"1">>, <<"a">>, <<"b">>, <<"c">>, <<"a","b">>, <<"a","a","b">> }

InitStatus ==
    /\ files = WordFilesGood
    /\ games \in {(1 :> gs) : gs \in StatusSessions}
    /\ resp = NoResponse
    /\ pc = [t \in Threads |-> "idle"]
    /\ req = [t \in Threads |-> NoRequest]
    /\ base = <<>>

NextStatus ==
    \/ \E g \in DOMAIN games, l \in StatusGuesses : api_guess(g, l)
    \/ \E g \in DOMAIN games, d \in Tiers \cup {NoDifficulty} : api_restart(g, d)

SpecStatus == InitStatus /\ [][NextStatus]_vars

---------------------------------------------------------------------------
(* One session just created by POST /api/new, then single-letter guesses    *)
(* only, of any letter of the alphabet                                      *)

LetterGuesses == {<<ch>> : ch \in Letters}

InitLose ==
    /\ files = WordFilesGood
    /\ \E d \in Tiers : \E out \in new_outcomes(<<>>, d) :
         games = out.games /\ resp = out.resp
    /\ pc = [t \in Threads |-> "idle"]
    /\ req = [t \in Threads |-> NoRequest]
    /\ base = <<>>

NextLose == \E g \in DOMAIN games, l \in LetterGuesses : api_guess(g, l)

SpecLose == InitLose /\ [][NextLose]_vars

---------------------------------------------------------------------------
(* The derived state of a session, as section 4.3 of the specification      *)
(* defines it                                                              *)

Won(gs) == \A i \in 1..Len(gs.secret) : gs.secret[i] \in gs.guessed
Over(gs) == Won(gs) \/ gs.lives <= 0
InProgress(gs) == ~Over(gs)
StartingLives(gs) == DIFFICULTY[gs.difficulty].lives
Occurs(ch, secret) == \E i \in 1..Len(secret) : secret[i] = ch
Alphabetic(raw) == \A i \in 1..Len(raw) : raw[i] \in Letters

\* The step restarts identifier g.
IsRestartOf(g) ==
    \E d \in Tiers \cup {NoDifficulty} :
      \E out \in restart_outcomes(games, g, d) :
        games' = out.games /\ resp' = out.resp

---------------------------------------------------------------------------
(* Claims *)

\* C1: with requests run to completion one at a time, every session in the
\* registry has lives >= 0, and a single-letter guess takes a life only from
\* a session that has at least one.
C1_LivesNeverNegative ==
    /\ \A g \in DOMAIN games : games[g].lives >= 0
    /\ \A g \in DOMAIN games, l \in RawGuesses :
         LET raw == lower(strip(l))
             after == guess_outcome(games, g, l).games[g]
         IN (Len(raw) = 1 /\ after.lives # games[g].lives)
              => (games[g].lives >= 1 /\ after.lives = games[g].lives - 1)

\* C1 witness: a session that a wrong letter and wrong words brought to 0 lives
C1_Witness ==
    \E g \in DOMAIN games :
      /\ games[g].lives = 0
      /\ games[g].guessed = {"b"}
      /\ ~Occurs("b", games[g].secret)
      /\ resp = _response(g, games[g])
      /\ resp.lost

\* C2: two guess requests for the same session that are processed
\* concurrently leave the registry as some serial execution of the two
\* leaves it, and no session with lives below 0.
C2_ConcurrentGuessesSerialized ==
    (\A t \in Threads : pc[t] = "done")
      => /\ games \in SerialOutcomes
         /\ \A g \in DOMAIN games : games[g].lives >= 0

\* C3: a step that is not a restart of the identifier never shrinks a
\* session's guessed-letter set, and no guess does.
C3_GuessedNeverShrinks ==
    /\ [][\A g \in DOMAIN games :
            games[g].guessed \subseteq games'[g].guessed \/ IsRestartOf(g)]_vars
    /\ [](\A g \in DOMAIN games, l \in RawGuesses :
            games[g].guessed \subseteq guess_outcome(games, g, l).games[g].guessed)

\* C3 witness: a session that kept its wrong letter when the letters of the
\* secret joined the guessed set
C3_Witness ==
    \E g \in DOMAIN games :
      /\ games[g].guessed = {"a", "b"}
      /\ set(games[g].secret) = {"a"}
      /\ resp = _response(g, games[g])
      /\ resp.won /\ resp.wrong = <<"b">>

\* C4: on a session that is WON or LOST every guess that is not empty after
\* trimming changes nothing and returns the status of before the guess, and
\* the session stays as it is until its identifier is restarted.
C4_GuessAfterEndIsNoOp ==
    /\ [](\A g \in DOMAIN games, l \in RawGuesses :
            (Over(games[g]) /\ lower(strip(l)) # <<>>)
              => LET out == guess_outcome(games, g, l)
                 IN out.games = games /\ out.resp = _response(g, games[g]))
    /\ [][\A g \in DOMAIN games :
            Over(games[g]) => (games'[g] = games[g] \/ IsRestartOf(g))]_vars

\* C4 witness: a lost session whose status is the last response
C4_Witness ==
    \E g \in DOMAIN games :
      /\ games[g].lives = 0
      /\ ~Won(games[g])
      /\ resp = _response(g, games[g])
      /\ resp.lost /\ ~resp.won

\* C5: a guess of a letter that is already in the guessed set changes
\* neither lives nor guessed letters and returns the session's status, the
\* same one the previous guess of that letter returned when that guess was
\* the last request served.
C5_RepeatedLetterIsNoOp ==
    \A g \in DOMAIN games, l \in RawGuesses :
      LET raw == lower(strip(l))
      IN (Len(raw) = 1 /\ raw[1] \in games[g].guessed)
           => LET out == guess_outcome(games, g, l)
              IN /\ out.games = games
                 /\ out.resp = _response(g, games[g])
                 /\ (resp.kind = "ok" /\ resp.game_id = g) => out.resp = resp

\* C5 witness: an unfinished session with a wrong letter guessed, whose
\* status is the last response
C5_Witness ==
    \E g \in DOMAIN games :
      /\ InProgress(games[g])
      /\ resp.kind = "ok" /\ resp.game_id = g
      /\ resp.wrong = <<"b">>
      /\ resp.lives = StartingLives(games[g]) - 1

\* C6: a rejected guess changes nothing: an unknown identifier is answered
\* 404, and an empty guess, a single character that is no letter and a word
\* with a character that is no letter (the last two on an unfinished
\* session) are answered 400, each leaving the registry as it was.
C6_RejectedGuessChangesNothing ==
    \A g \in ClientIds, l \in RawGuesses :
      LET raw == lower(strip(l))
          out == guess_outcome(games, g, l)
          rejected(code) == /\ out.resp.kind = "error"
                            /\ out.resp.status_code = code
                            /\ out.games = games
      IN /\ g \notin DOMAIN games => rejected(404)
         /\ (g \in DOMAIN games /\ raw = <<>>) => rejected(400)
         /\ (g \in DOMAIN games /\ InProgress(games[g]) /\ raw # <<>> /\ ~Alphabetic(raw))
               => rejected(400)
         /\ out.resp.kind = "error" => out.games = games

\* C6 witness: the last request was a guess that is no letter, rejected on a
\* session that has taken guesses and is not finished
C6_Witness ==
    /\ resp = HTTPException(400, "Invalid letter")
    /\ \E g \in DOMAIN games : InProgress(games[g]) /\ games[g].guessed # {}

\* C7: a wrong full-word guess on an unfinished session sets lives to
\* max(0, lives - 2) and leaves the guessed letters alone; from lives = 1 it
\* gives lives = 0 and lost = TRUE.
C7_WrongWordPenalty ==
    \A g \in DOMAIN games, l \in RawGuesses :
      LET raw == lower(strip(l))
          gs == games[g]
      IN (InProgress(gs) /\ Len(raw) >= 2 /\ Alphabetic(raw) /\ raw # gs.secret)
           => LET out == guess_outcome(games, g, l)
              IN /\ out.games[g].lives = (IF gs.lives >= 2 THEN gs.lives - 2 ELSE 0)
                 /\ out.games[g].guessed = gs.guessed
                 /\ out.resp.kind = "ok"
                 /\ out.resp.lives = out.games[g].lives
                 /\ gs.lives = 1 => (out.resp.lives = 0 /\ out.resp.lost)

\* C7 witness: a session whose secret uses both letters, so that it lost
\* lives two at a time only, at 0 lives: the last penalty took it from 1 to 0
C7_Witness ==
    \E g \in DOMAIN games :
      /\ set(games[g].secret) = {"a", "b"}
      /\ StartingLives(games[g]) % 2 = 1
      /\ games[g].lives = 0
      /\ resp = _response(g, games[g])
      /\ resp.lost

\* C8: a full-word guess equal to the secret on an unfinished session adds
\* every letter of the secret to the guessed set, keeps lives and returns
\* won = TRUE; as the first guess of a session just created it returns the
\* tier's starting lives.
C8_CorrectWordWins ==
    /\ \A g \in DOMAIN games, l \in RawGuesses :
         LET gs == games[g]
         IN (InProgress(gs) /\ lower(strip(l)) = gs.secret)
              => LET out == guess_outcome(games, g, l)
                 IN /\ out.games[g].guessed = gs.guessed \cup {gs.secret[i] : i \in 1..Len(gs.secret)}
                    /\ out.games[g].lives = gs.lives
                    /\ out.resp.kind = "ok" /\ out.resp.won
                    /\ out.resp.lives = gs.lives
    /\ \A d \in Tiers : \A made \in new_outcomes(games, d) :
         made.resp.kind = "ok"
           => LET g == made.resp.game_id
              IN \A l \in RawGuesses :
                   lower(strip(l)) = made.games[g].secret
                     => LET out == guess_outcome(made.games, g, l)
                        IN /\ out.resp.won /\ ~out.resp.lost
                           /\ out.resp.lives = DIFFICULTY[d].lives

\* C8 witness: a won session with all its starting lives and no wrong letter
C8_Witness ==
    \E g \in DOMAIN games :
      /\ games[g].guessed = set(games[g].secret)
      /\ Cardinality(games[g].guessed) = 2
      /\ games[g].lives = StartingLives(games[g])
      /\ resp = _response(g, games[g])
      /\ resp.won

\* C9: a guess of a single letter not yet guessed, on an unfinished session,
\* adds exactly that letter to the guessed set and takes exactly one life
\* when the letter does not occur in the secret, none when it does.
C9_NewLetterGuess ==
    \A g \in DOMAIN games, l \in RawGuesses :
      LET raw == lower(strip(l))
          gs == games[g]
      IN (InProgress(gs) /\ Len(raw) = 1 /\ Alphabetic(raw) /\ raw[1] \notin gs.guessed)
           => LET after == guess_outcome(games, g, l).games[g]
              IN /\ after.guessed = gs.guessed \cup {raw[1]}
                 /\ after.lives = (IF Occurs(raw[1], gs.secret) THEN gs.lives ELSE gs.lives - 1)
                 /\ after.secret = gs.secret

\* C9 witness: one session that a single wrong letter cost its first life,
\* or one that a right letter cost none
C9_Witness ==
    \E g \in DOMAIN games :
      /\ games[g].guessed = {"b"}
      /\ ~Occurs("b", games[g].secret)
      /\ games[g].lives = StartingLives(games[g]) - 1
      /\ resp = _response(g, games[g])

\* C10: restart with an identifier that is not in the registry is never
\* answered not-found; unless creating the session raises, it registers a
\* fresh session (starting lives, nothing guessed) of the given difficulty,
\* or of "normal" when none is given, under a new identifier that differs
\* from the supplied one, which stays absent.
C10_RestartUnknownCreates ==
    \A g \in ForeignIds \ DOMAIN games, d \in Tiers \cup {NoDifficulty} :
      \A out \in restart_outcomes(games, g, d) :
        LET tier == IF d = NoDifficulty THEN "normal" ELSE d
        IN IF out.resp.kind = "error"
           THEN /\ out.resp.status_code = 500
                /\ _new_game_state(tier).raised # "none"
                /\ out.games = games
           ELSE LET new == out.resp.game_id
                IN /\ _new_game_state(tier).raised = "none"
                   /\ new # g
                   /\ new \notin DOMAIN games
                   /\ DOMAIN out.games = DOMAIN games \cup {new}
                   /\ g \notin DOMAIN out.games
                   /\ \A h \in DOMAIN games : out.games[h] = games[h]
                   /\ out.games[new].difficulty = tier
                   /\ out.games[new].guessed = {}
                   /\ out.games[new].lives = DIFFICULTY[tier].lives
                   /\ out.resp = _response(new, out.games[new])

\* C10 witness: a fresh normal session is registered, its status is the last
\* response, and the foreign identifier is absent
C10_Witness ==
    \E g \in DOMAIN games :
      /\ games[g].difficulty = "normal"
      /\ games[g].guessed = {}
      /\ games[g].lives = DIFFICULTY["normal"].lives
      /\ resp = _response(g, games[g])
      /\ ForeignIds \cap DOMAIN games = {}

\* C11: restart with an identifier that is in the registry, whatever the
\* state of its session, always answers; unless creating the session raises,
\* it stores under that same identifier a fresh session (nothing guessed,
\* the starting lives of its tier) whose difficulty is the given one or,
\* when none is given, the previous session's, returns that identifier, and
\* leaves every other session alone.
C11_RestartExistingReplaces ==
    \A g \in DOMAIN games, d \in Tiers \cup {NoDifficulty} :
      LET tier == IF d = NoDifficulty THEN games[g].difficulty ELSE d
          outs == restart_outcomes(games, g, d)
      IN /\ outs # {}
         /\ \A out \in outs :
              IF out.resp.kind = "error"
              THEN _new_game_state(tier).raised # "none"
              ELSE /\ _new_game_state(tier).raised = "none"
                   /\ out.resp.game_id = g
                   /\ DOMAIN out.games = DOMAIN games
                   /\ \A h \in DOMAIN games \ {g} : out.games[h] = games[h]
                   /\ out.games[g].difficulty = tier
                   /\ out.games[g].guessed = {}
                   /\ out.games[g].lives = DIFFICULTY[tier].lives
                   /\ out.resp = _response(g, out.games[g])

\* C11 witness: the last response is the status of a session with nothing
\* guessed and all its lives, which only a restart of its identifier
\* returns once both sessions exist; the other session, a lost one, is as
\* its guesses left it
C11_Witness ==
    \E g \in DOMAIN games, h \in DOMAIN games :
      /\ g # h
      /\ games[g].guessed = {}
      /\ games[g].lives = StartingLives(games[g])
      /\ resp.kind = "ok" /\ resp.game_id = g
      /\ resp = _response(g, games[g])
      /\ games[h].lives = 0 /\ games[h].guessed # {}

\* C12: every session that new-game or restart creates has nothing guessed
\* and the lives of its tier (easy 10, normal 7, hard 5), new-game creates
\* it in the tier asked for, and the status returned for it is neither won
\* nor lost.
C12_NewSessionInitialValues ==
    LET tier_lives(d) == CASE d = "easy" -> 10 [] d = "normal" -> 7 [] d = "hard" -> 5
        created(out) ==
            LET gs == out.games[out.resp.game_id]
            IN /\ gs.guessed = {}
               /\ gs.lives = tier_lives(gs.difficulty)
               /\ out.resp.lives = tier_lives(gs.difficulty)
               /\ out.resp.wrong = <<>>
               /\ ~out.resp.won /\ ~out.resp.lost
    IN /\ \A d \in Tiers : \A out \in new_outcomes(games, d) :
            out.resp.kind = "ok"
              => created(out) /\ out.games[out.resp.game_id].difficulty = d
       /\ \A g \in ClientIds, d \in Tiers \cup {NoDifficulty} :
            \A out \in restart_outcomes(games, g, d) :
              out.resp.kind = "ok" => created(out)

\* C12 witness: a hard session just created, answered with 5 lives and
\* neither flag set
C12_Witness ==
    \E g \in DOMAIN games :
      /\ games[g].difficulty = "hard"
      /\ games[g].guessed = {}
      /\ resp = _response(g, games[g])
      /\ resp.lives = 5 /\ ~resp.won /\ ~resp.lost
      /\ "_" \in set(resp.masked)

\* C13: every response of a route carries the identifier, the masked
\* string, the lives, the wrong letters, the two flags and nothing else (kind
\* tells a response from an HTTP error), and it is the status of the session
\* it names; and the response does not depend on the secret beyond the
\* masked string: a session that differs in its secret alone and has the
\* same masked string gets the very same response.
C13_ResponseHidesSecret ==
    /\ resp.kind = "ok"
         => /\ DOMAIN resp = {"kind", "game_id", "masked", "lives", "wrong", "won", "lost"}
            /\ resp.game_id \in DOMAIN games
            /\ resp = _response(resp.game_id, games[resp.game_id])
    /\ \A g \in DOMAIN games, secret2 \in StatusWords :
         LET gs == games[g]
             gs2 == [gs EXCEPT !.secret = secret2]
         IN mask_word(gs2.secret, gs2.guessed) = mask_word(gs.secret, gs.guessed)
              => _response(g, gs2) = _response(g, gs)

\* C13 witness: the response to a guess of "a" on a session with secret
\* "aab", which a session with secret "aac" would get as well
C13_Witness ==
    \E g \in DOMAIN games :
      /\ games[g].secret = <<"a","a","b">>
      /\ games[g].guessed = {"a"}
      /\ resp = _response(g, games[g])
      /\ resp.masked = <<"a"," ","a"," ","_">>
      /\ mask_word(<<"a","a","c">>, games[g].guessed) = resp.masked

\* C14: on a tier whose word list is empty after filtering no session is
\* created: new-game and restart are answered with an error, new-game and
\* restart of an unknown identifier register nothing, restart of a
\* registered identifier leaves its session (and the rest of the registry)
\* as it was; and no session in the registry is without a secret.
C14_EmptyWordListFails ==
    /\ \A g \in DOMAIN games : games[g].secret # <<>>
    /\ \A d \in Tiers :
         (load_words(d).ok /\ load_words(d).words = <<>>)
           => /\ \A out \in new_outcomes(games, d) :
                   out.resp.kind = "error" /\ out.games = games
              /\ \A g \in ClientIds, given \in {d, NoDifficulty} :
                   LET tier == IF given # NoDifficulty THEN given
                               ELSE IF g \in DOMAIN games THEN games[g].difficulty
                               ELSE "normal"
                   IN tier = d
                        => \A out \in restart_outcomes(games, g, given) :
                             out.resp.kind = "error" /\ out.games = games

\* C14 witness: the hard list holds nothing the filter keeps; a restart
\* asking for it was answered with the failure, and the session that took
\* guesses before is still the one registered
C14_Witness ==
    /\ load_words("hard").ok /\ load_words("hard").words = <<>>
    /\ resp = ServerError("AssertionError")
    /\ \E g \in DOMAIN games : games[g].guessed # {} /\ games[g].secret # <<>>

\* C15: the masked string of a secret s under a guessed set G has one entry
\* per position of s, single spaces between them and nothing else; the
\* entry of a position is its character when the character is in G and "_"
\* when it is not; and when every letter of s is in G it holds no "_".
C15_MaskRevealsGuessedPositions ==
    \A g \in DOMAIN games :
      LET s == games[g].secret
          G == games[g].guessed
          m == mask_word(s, G)
      IN /\ Len(m) = 2 * Len(s) - 1
         /\ \A i \in 1..Len(s) : m[2 * i - 1] = (IF s[i] \in G THEN s[i] ELSE "_")
         /\ \A i \in 1..(Len(s) - 1) : m[2 * i] = " "
         /\ (\A i \in 1..Len(s) : s[i] \in G) => \A j \in 1..Len(m) : m[j] # "_"
         /\ (resp.kind = "ok" /\ resp.game_id = g) => resp.masked = m

\* C15 witness: secret "aba" with a and c guessed is answered "a _ a"
C15_Witness ==
    \E g \in DOMAIN games :
      /\ games[g].secret = <<"a","b","a">>
      /\ games[g].guessed = {"a", "c"}
      /\ resp.kind = "ok" /\ resp.game_id = g
      /\ resp.masked = <<"a"," ","_"," ","a">>

\* C16: a guess, whatever it carries and however it is answered, leaves the
\* set of identifiers of the registry, every session other than the one it
\* names, and the secret and the difficulty of the one it names as they were.
C16_GuessFrame ==
    \A g \in ClientIds, l \in RawGuesses :
      LET out == guess_outcome(games, g, l)
      IN /\ DOMAIN out.games = DOMAIN games
         /\ \A h \in DOMAIN games :
              /\ h # g => out.games[h] = games[h]
              /\ out.games[h].secret = games[h].secret
              /\ out.games[h].difficulty = games[h].difficulty

\* C16 witness: two sessions of different tiers; the last guess cost one of
\* them a life and the other one has all its lives and guessed letters of
\* its own
C16_Witness ==
    \E g \in DOMAIN games, h \in DOMAIN games :
      /\ g # h
      /\ games[g].difficulty # games[h].difficulty
      /\ resp = _response(g, games[g])
      /\ games[g].guessed = {"b"} /\ games[g].lives = StartingLives(games[g]) - 1
      /\ games[h].guessed = {"a"} /\ games[h].lives = StartingLives(games[h])

\* C17: on a session that is WON or LOST a guess that is empty after
\* trimming is rejected with the empty-guess error, and every other guess,
\* a single character that is no letter and a word with such a character
\* included, is answered with the current status and no error; neither
\* changes the registry.
C17_CheckOrderOnEndedSession ==
    \A g \in DOMAIN games, l \in RawGuesses :
      Over(games[g])
        => LET raw == lower(strip(l))
               out == guess_outcome(games, g, l)
           IN /\ out.games = games
              /\ IF raw = <<>>
                 THEN out.resp = HTTPException(400, "Empty guess")
                 ELSE out.resp.kind = "ok" /\ out.resp = _response(g, games[g])

\* C17 witness: a won session, and the last request an empty guess that was
\* rejected
C17_Witness ==
    /\ resp = HTTPException(400, "Empty guess")
    /\ \E g \in DOMAIN games : Won(games[g]) /\ games[g].lives > 0

\* C18: with requests run one at a time no session is won and lost at once,
\* and no response says so; where a guess can take the last life (an
\* unfinished session with one or two lives) the guess that completes the
\* word takes no life and the guess that takes a life completes nothing.
C18_NeverWonAndLost ==
    /\ \A g \in DOMAIN games :
         LET status == compute_status(games[g].secret, games[g].guessed, games[g].lives)
         IN ~(status.won /\ status.lost)
    /\ resp.kind = "ok" => ~(resp.won /\ resp.lost)
    /\ \A g \in DOMAIN games :
         (InProgress(games[g]) /\ games[g].lives <= 2)
           => \A l \in RawGuesses :
                LET gs == games[g]
                    out == guess_outcome(games, g, l)
                    after == out.games[g]
                IN /\ out.resp.kind = "ok" => ~(out.resp.won /\ out.resp.lost)
                   /\ Won(after) => (after.lives = gs.lives /\ gs.lives >= 1)
                   /\ after.lives < gs.lives => ~Won(after)

\* C18 witness: a session won with its last life left
C18_Witness ==
    \E g \in DOMAIN games :
      /\ Won(games[g])
      /\ games[g].lives = 1
      /\ resp = _response(g, games[g])
      /\ resp.won /\ ~resp.lost

\* C19: in a session that since its creation has taken single-letter
\* guesses only, all of them letters that do not occur in the secret, each
\* distinct letter has cost one life; the status is lost exactly when the
\* number of distinct letters has reached the starting lives L of the tier
\* (7 for normal) and never won; and from then on every guess is answered
\* with that same status and changes nothing.
C19_LostAtLastLife ==
    \A g \in DOMAIN games :
      LET gs == games[g]
          L == StartingLives(gs)
          n == Cardinality(gs.guessed)
          status == _response(g, gs)
      IN (gs.guessed \cap set(gs.secret) = {})
           => /\ gs.difficulty = "normal" => L = 7
              /\ gs.lives = L - n
              /\ status.lost = (n = L)
              /\ ~status.won
              /\ resp = status
              /\ n = L => \A l \in LetterGuesses \cup RawGuesses :
                            lower(strip(l)) # <<>>
                              => guess_outcome(games, g, l) = Outcome(games, status)

\* C19 witness: a normal session lost with seven wrong letters and no other
C19_Witness ==
    \E g \in DOMAIN games :
      /\ games[g].difficulty = "normal"
      /\ games[g].guessed \cap set(games[g].secret) = {}
      /\ Cardinality(games[g].guessed) = 7
      /\ games[g].lives = 0
      /\ resp = _response(g, games[g])
      /\ resp.lost /\ ~resp.won /\ Len(resp.wrong) = 7

\* C20: with requests run one at a time, in every session the number of
\* wrong letters (guessed letters that do not occur in the secret) plus the
\* lives is at most the starting lives of the session's difficulty.  It
\* equals them in every session new-game or restart creates, on an
\* unfinished session (a finished one takes no guess) every guess other
\* than a wrong full word keeps the sum as it is, and a wrong full word
\* lowers it: so the sum equals the starting lives as long as no wrong
\* full-word guess has been applied.
C20_WrongLettersPlusLives ==
    LET wrong(gs) == Cardinality({ch \in gs.guessed : ~Occurs(ch, gs.secret)})
        sum(gs) == wrong(gs) + gs.lives
        created(out) ==
            \A h \in DOMAIN out.games :
              \/ h \in DOMAIN games /\ out.games[h] = games[h]
              \/ sum(out.games[h]) = StartingLives(out.games[h])
    IN /\ \A g \in DOMAIN games : sum(games[g]) <= StartingLives(games[g])
       /\ \A d \in Tiers : \A out \in new_outcomes(games, d) : created(out)
       /\ \A g \in ClientIds, d \in Tiers \cup {NoDifficulty} :
            \A out \in restart_outcomes(games, g, d) : created(out)
       /\ \A g \in DOMAIN games :
            InProgress(games[g])
              => \A l \in RawGuesses :
                   LET gs == games[g]
                       raw == lower(strip(l))
                       after == guess_outcome(games, g, l).games[g]
                       wrong_word == Len(raw) >= 2 /\ Alphabetic(raw) /\ raw # gs.secret
                   IN IF wrong_word
                      THEN sum(after) < sum(gs)
                      ELSE sum(after) = sum(gs)

\* C20 witness: an unfinished session that a wrong letter cost one life and
\* a wrong word two: one wrong letter plus the lives is two short of the
\* starting lives
C20_Witness ==
    \E g \in DOMAIN games :
      /\ InProgress(games[g])
      /\ games[g].guessed = {"b"}
      /\ ~Occurs("b", games[g].secret)
      /\ games[g].lives = StartingLives(games[g]) - 3
      /\ resp = _response(g, games[g])

===========================================================================
